---- MODULE Spec2Model ----
(***************************************************************************)
(* Model of server.js: the /api/departures handler with its in-memory      *)
(* cache, and the parsing helpers it calls.                                *)
(*                                                                         *)
(* Node.js runs each handler to its next `await` without interruption, so  *)
(* one action is the synchronous run of the handler between two awaits.    *)
(* Overlapping requests interleave only at those awaits.                   *)
(***************************************************************************)
EXTENDS Integers, Sequences, FiniteSets, TLC

\* ------------------------------------------------------------------ bounds
\* Number of request slots, i.e. of handlers that can be in flight at once.
\* A slot that has finished is reused by a later request.
NumRequests == 2
\* Number of times the clock advances in one behaviour.
MaxTicks == 3

Requests == 1..NumRequests

\* ------------------------------------------------------------ program data
\* const CACHE_DURATION = 15 * 60 * 1000
CACHE_DURATION == 15 * 60 * 1000

\* JavaScript null where an array of records may stand (cache.data): a value
\* that compares with every such array and equals none of them.
Null == <<[null |-> TRUE]>>

\* JavaScript undefined where a text may stand (a missing src attribute): a
\* value that compares with every text and equals none of them.
Undefined == <<"undefined">>

\* Clock reading at process start, in ms.  Only differences with
\* cache.lastFetch matter; its initial value 0 is 1 ms in the past.
StartTime == 1

\* Amounts by which the clock advances between two handler steps.
TickSteps == {1, CACHE_DURATION - 1}

\* ------------------------------------------------------------ text helpers
\* A text is a sequence of one-character strings.
IsSpace(c) == c = " "

RECURSIVE TrimStart(_)
TrimStart(s) ==
    IF s # <<>> /\ IsSpace(Head(s)) THEN TrimStart(Tail(s)) ELSE s

RECURSIVE TrimEnd(_)
TrimEnd(s) ==
    IF s # <<>> /\ IsSpace(s[Len(s)]) THEN TrimEnd(SubSeq(s, 1, Len(s) - 1)) ELSE s

\* String.prototype.trim
Trim(s) == TrimEnd(TrimStart(s))

\* String.prototype.toLowerCase, on the letters the documents use
LowerChar(c) ==
    CASE c = "O" -> "o" [] c = "R" -> "r" [] c = "I" -> "i" [] c = "G" -> "g"
      [] c = "N" -> "n" [] c = "D" -> "d" [] c = "E" -> "e" [] c = "L" -> "l"
      [] c = "B" -> "b" [] c = "M" -> "m"
      [] OTHER -> c

ToLowerCase(s) == [i \in 1..Len(s) |-> LowerChar(s[i])]

\* String.prototype.includes
Includes(s, sub) ==
    \E i \in 1..(Len(s) - Len(sub) + 1) : SubSeq(s, i, i + Len(sub) - 1) = sub

ORIGIN == <<"o", "r", "i", "g", "i", "n">>

\* The index of the first occurrence of ch in s, or 0
RECURSIVE IndexOf(_, _, _)
IndexOf(s, ch, i) ==
    IF i > Len(s) THEN 0
    ELSE IF s[i] = ch THEN i
    ELSE IndexOf(s, ch, i + 1)

\* String.prototype.split with a one-character separator
RECURSIVE Split(_, _)
Split(s, ch) ==
    LET i == IndexOf(s, ch, 1) IN
    IF i = 0 THEN <<s>>
    ELSE <<SubSeq(s, 1, i - 1)>> \o Split(SubSeq(s, i + 1, Len(s)), ch)

\* Array.prototype.pop: the last element
Pop(a) == a[Len(a)]

\* String.prototype.replace(/-/g, ' ')
HyphensToSpaces(s) == [i \in 1..Len(s) |-> IF s[i] = "-" THEN " " ELSE s[i]]

Digits == {"0", "1", "2", "3", "4", "5", "6", "7", "8", "9"}

IsDigit(c) == c \in Digits

DigitVal(c) ==
    CASE c = "0" -> 0 [] c = "1" -> 1 [] c = "2" -> 2 [] c = "3" -> 3
      [] c = "4" -> 4 [] c = "5" -> 5 [] c = "6" -> 6 [] c = "7" -> 7
      [] c = "8" -> 8 [] c = "9" -> 9

\* Number(s) for a string of decimal digits (Number("") is 0)
RECURSIVE Number(_)
Number(s) ==
    IF s = <<>> THEN 0
    ELSE 10 * Number(SubSeq(s, 1, Len(s) - 1)) + DigitVal(s[Len(s)])

Max(a, b) == IF a >= b THEN a ELSE b

\* ---------------------------------------------------------------- parsing
OTHER_NAME == <<"O", "t", "h", "e", "r">>

NO_TIME == <<"-", "-", ":", "-", "-">>

\* Mutant: an empty name is returned as it is
getAirlineNameFromUrlNoFallback(url) ==
    IF url = Undefined \/ url = <<>> THEN OTHER_NAME
    ELSE LET filename == Split(Pop(Split(url, "/")), ".")[1]
             parts    == Split(filename, "_")
         IN  HyphensToSpaces(parts[1])

\* function getAirlineNameFromUrl(url): url is Undefined (no src attribute) or a text
getAirlineNameFromUrl(url) ==
    IF url = Undefined \/ url = <<>> THEN OTHER_NAME
    ELSE LET filename == Split(Pop(Split(url, "/")), ".")[1]
             parts    == Split(filename, "_")
             name     == HyphensToSpaces(parts[1])
         IN  IF name # <<>> THEN name ELSE OTHER_NAME

\* Mutant: the difference is not clamped
calculateDelayMinutesNoClamp(std, etd) ==
    IF std = etd THEN 0
    ELSE LET stdP == Split(std, ":")
             etdP == Split(etd, ":")
             stdMinutes == Number(stdP[1]) * 60 + Number(stdP[2])
             etdMinutes0 == Number(etdP[1]) * 60 + Number(etdP[2])
             etdMinutes == IF etdMinutes0 < stdMinutes - 12 * 60
                           THEN etdMinutes0 + 24 * 60
                           ELSE etdMinutes0
         IN  etdMinutes - stdMinutes

\* Mutant: every estimated time before the scheduled one is taken as next-day
calculateDelayMinutesAlwaysRoll(std, etd) ==
    IF std = etd THEN 0
    ELSE LET stdP == Split(std, ":")
             etdP == Split(etd, ":")
             stdMinutes == Number(stdP[1]) * 60 + Number(stdP[2])
             etdMinutes0 == Number(etdP[1]) * 60 + Number(etdP[2])
             etdMinutes == IF etdMinutes0 < stdMinutes
                           THEN etdMinutes0 + 24 * 60
                           ELSE etdMinutes0
         IN  Max(0, etdMinutes - stdMinutes)

\* function calculateDelayMinutes(std, etd), on time tokens H:MM or HH:MM
calculateDelayMinutes(std, etd) ==
    IF std = etd THEN 0
    ELSE LET stdP == Split(std, ":")
             etdP == Split(etd, ":")
             stdMinutes == Number(stdP[1]) * 60 + Number(stdP[2])
             etdMinutes0 == Number(etdP[1]) * 60 + Number(etdP[2])
             etdMinutes == IF etdMinutes0 < stdMinutes - 12 * 60
                           THEN etdMinutes0 + 24 * 60
                           ELSE etdMinutes0
         IN  Max(0, etdMinutes - stdMinutes)

\* Length of the match of /[0-9]{1,2}:[0-9]{2}/ that starts at index i of s,
\* or 0 when none starts there.  The quantifier is greedy: two hour digits are
\* tried before one.
MatchAt(s, i) ==
    LET d(k) == k <= Len(s) /\ IsDigit(s[k])
        c(k) == k <= Len(s) /\ s[k] = ":"
    IN  IF d(i) /\ d(i + 1) /\ c(i + 2) /\ d(i + 3) /\ d(i + 4) THEN 5
        ELSE IF d(i) /\ c(i + 1) /\ d(i + 2) /\ d(i + 3) THEN 4
        ELSE 0

\* rawText.match(/([0-9]{1,2}:[0-9]{2})/g): the non-overlapping matches,
\* leftmost first (<<>> stands for the null that match returns for none)
RECURSIVE MatchTimes(_, _)
MatchTimes(s, i) ==
    IF i > Len(s) THEN <<>>
    ELSE LET n == MatchAt(s, i) IN
         IF n = 0 THEN MatchTimes(s, i + 1)
         ELSE <<SubSeq(s, i, i + n - 1)>> \o MatchTimes(s, i + n)

\* Mutant: the estimated time is the last token, not the second
parseTimeAndDelayLast(rawText) ==
    LET times == MatchTimes(rawText, 1) IN
    IF Len(times) = 0
    THEN [std |-> NO_TIME, etd |-> NO_TIME, delayMins |-> 0]
    ELSE LET std == times[1]
             etd == times[Len(times)]
         IN  [std |-> std, etd |-> etd, delayMins |-> calculateDelayMinutes(std, etd)]

\* function parseTimeAndDelay(rawText)
parseTimeAndDelay(rawText) ==
    LET times == MatchTimes(rawText, 1) IN
    IF Len(times) = 0
    THEN [std |-> NO_TIME, etd |-> NO_TIME, delayMins |-> 0]
    ELSE LET std == times[1]
             etd == IF Len(times) > 1 THEN times[2] ELSE std
         IN  [std |-> std, etd |-> etd, delayMins |-> calculateDelayMinutes(std, etd)]

\* The record parseFlights pushes for a row.  A row is [img, td]: the src of
\* the image in its first cell (Undefined when there is none) and the texts of its
\* td cells; cols[k] of the code is td[k + 1].
FlightOf(row) ==
    LET t == parseTimeAndDelay(Trim(row.td[5])) IN
    [airlineImg  |-> row.img,
     airlineName |-> getAirlineNameFromUrl(row.img),
     flightNo    |-> Trim(row.td[2]),
     dest        |-> Trim(row.td[3]),
     std         |-> t.std,
     etd         |-> t.etd,
     delayMins   |-> t.delayMins,
     gate        |-> Trim(row.td[6]),
     status      |-> Trim(row.td[7])]

\* Mutant: the header is looked for without lower-casing the cell
SkipRowCaseSensitive(row) ==
    \/ Len(row.td) < 7
    \/ Includes(Trim(row.td[3]), ORIGIN)

\* The two early returns of the row callback of parseFlights
SkipRow(row) ==
    \/ Len(row.td) < 7
    \/ Includes(ToLowerCase(Trim(row.td[3])), ORIGIN)

\* function parseFlights(html): html is the sequence of the document's tr rows
RECURSIVE parseFlights(_)
parseFlights(html) ==
    IF html = <<>> THEN <<>>
    ELSE (IF SkipRow(Head(html)) THEN <<>> ELSE <<FlightOf(Head(html))>>)
         \o parseFlights(Tail(html))
\* ------------------------------------------------------- upstream documents
\* The pages the airport server can serve, as the rows cheerio finds in them.
HeaderRow ==
    [img |-> Undefined,
     td  |-> << <<"A">>, <<"F">>, <<" ", "O", "r", "i", "g", "i", "n", "/", "D">>,
                <<"V">>, <<"T">>, <<"G">>, <<"S">> >>]

ShortRow ==
    [img |-> Undefined, td |-> << <<"x">>, <<"y">>, <<"D", "E", "L">> >>]

RowDEL ==
    [img |-> <<"/", "i", "/", "a", "-", "b", "_", "l", ".", "p">>,
     td  |-> << <<>>, <<" ", "6", "E", "1">>, <<"D", "E", "L", " ">>, <<>>,
                <<"9", ":", "0", "5", " ", "9", ":", "4", "0">>, <<"2">>,
                <<"o", "k">> >>]

RowBOM ==
    [img |-> Undefined,
     td  |-> << <<>>, <<"6", "E", "1">>, <<"B", "O", "M">>, <<>>,
                <<"2", "3", ":", "5", "0", "0", "0", ":", "1", "0">>, <<>>,
                <<>>, <<"z">> >>]

\* A row one cell short of a flight
SixRow ==
    [img |-> Undefined,
     td  |-> << <<>>, <<"6", "E", "2">>, <<"G", "O", "I">>, <<>>,
                <<"1", ":", "0", "0">>, <<"3">> >>]

DocNone == <<HeaderRow, ShortRow>>
DocTwo == <<RowBOM, ShortRow, HeaderRow, RowDEL>>

Bodies == {DocNone, DocTwo}

\* The response statuses the airport server can answer with
Statuses == {200, 503}

\* HTTPResponse.ok(): the status is in the range 200-299
Ok(status) == status >= 200 /\ status <= 299

\* ------------------------------------------------------------------- state
VARIABLES
    clock,      \* Date.now()
    cache,      \* const cache = { data, lastFetch }
    pc,         \* per request: the await its handler is suspended at
    browser,    \* per request: let browser, and whether it is still open
    error,      \* per request: the error its catch block caught
    response,   \* per request: what was sent on res
    lastSet,    \* ghost: the pair the last cache update meant to store
    arg,        \* a call of a parsing function on its own: the argument
    ret,        \* ... what it returned
    returned    \* ... whether it has returned

\* The state of the server
serverVars == <<clock, cache, pc, browser, error, response, lastSet>>

\* The state of a call of a parsing function on its own
callVars == <<arg, ret, returned>>

vars == <<clock, cache, pc, browser, error, response, lastSet, arg, ret, returned>>

NoBrowser  == "null"
NoError    == "none"
NoResponse == [status |-> 0]

\* res.json(data)
Json(data) == [status |-> 200, json |-> data]

\* res.status(500).json({ error: "Failed to fetch flight data", details })
Json500(details) ==
    [status |-> 500, error |-> "Failed to fetch flight data", details |-> details]

\* new Error(`Airport server responded with ${response.status()}`).message
StatusMessage(status) ==
    CASE status = 404 -> "Airport server responded with 404"
      [] status = 503 -> "Airport server responded with 503"

\* The awaits of the try block, in order
Awaits == <<"launch", "newPage", "setUserAgent", "goto", "content">>

PcValues == {"idle", "launch", "newPage", "setUserAgent", "goto", "content", "close", "done"}

\* Number of clock advances so far (TickSteps are 1 and CACHE_DURATION - 1)
TicksTaken ==
    ((clock - StartTime) \div (CACHE_DURATION - 1))
    + ((clock - StartTime) % (CACHE_DURATION - 1))

\* The server after start-up, before any request
InitServer ==
    /\ clock = StartTime
    /\ cache = [data |-> Null, lastFetch |-> 0]
    /\ pc = [r \in Requests |-> "idle"]
    /\ browser = [r \in Requests |-> NoBrowser]
    /\ error = [r \in Requests |-> NoError]
    /\ response = [r \in Requests |-> NoResponse]
    /\ lastSet = [data |-> Null, lastFetch |-> 0]

Init ==
    /\ InitServer
    /\ arg = <<>>
    /\ ret = <<>>
    /\ returned = FALSE
\* ----------------------------------------------------------------- handler
\* Mutant: the window's last millisecond is counted in
IsCacheFreshInclusive(t, c) == (t - c.lastFetch) <= CACHE_DURATION

\* const isCacheFresh = (now - cache.lastFetch) < CACHE_DURATION
IsCacheFresh(t, c) == (t - c.lastFetch) < CACHE_DURATION

\* Mutant: an empty array of records is not served from the cache
ServeFromCacheNonEmpty(t, c) ==
    c.data # Null /\ c.data # <<>> /\ (t - c.lastFetch) < CACHE_DURATION

\* if (cache.data && isCacheFresh): an array, even an empty one, is truthy
ServeFromCache(t, c) == c.data # Null /\ IsCacheFresh(t, c)

\* Mutant: the records are stored and the timestamp is left for later
CacheUpdateDataOnly(c, flights, t) == [data |-> flights, lastFetch |-> c.lastFetch]

\* Mutant: the new records are added to the cached ones
CacheUpdateMerge(c, flights, t) ==
    [data |-> IF c.data = Null THEN flights ELSE c.data \o flights, lastFetch |-> t]

\* Mutant: records that are still fresh are not overwritten
CacheUpdateKeepFresh(c, flights, t) ==
    IF c.data # Null /\ (t - c.lastFetch) < CACHE_DURATION
    THEN c
    ELSE [data |-> flights, lastFetch |-> t]

\* cache.data = flights; cache.lastFetch = Date.now();
CacheUpdate(c, flights, t) == [data |-> flights, lastFetch |-> t]

\* Mutant: no stale fallback
CatchResponseNoFallback(c, message) == Json500(message)

\* Mutant: an empty array of records counts as no data
CatchResponseEmptyIsMissing(c, message) ==
    IF c.data # Null /\ c.data # <<>> THEN Json(c.data) ELSE Json500(message)

\* The catch block: stale data if there is any, the error otherwise
CatchResponse(c, message) ==
    IF c.data # Null THEN Json(c.data) ELSE Json500(message)

\* Mutant: the browser is never closed
FinallyPcLeak(b) == "done"

\* The finally block: where the handler goes with its browser variable at b
FinallyPc(b) == IF b # NoBrowser THEN "close" ELSE "done"

\* Mutant: a cache hit renews the timestamp
HandleRequestSliding(r) ==
    /\ pc[r] \in {"idle", "done"}
    /\ browser' = [browser EXCEPT ![r] = NoBrowser]
    /\ error' = [error EXCEPT ![r] = NoError]
    /\ IF cache.data # Null /\ (clock - cache.lastFetch) < CACHE_DURATION
       THEN /\ response' = [response EXCEPT ![r] = Json(cache.data)]
            /\ pc' = [pc EXCEPT ![r] = "done"]
            /\ cache' = [cache EXCEPT !.lastFetch = clock]
       ELSE /\ response' = [response EXCEPT ![r] = NoResponse]
            /\ pc' = [pc EXCEPT ![r] = "launch"]
            /\ cache' = cache
    /\ UNCHANGED <<clock, lastSet, callVars>>

\* Mutant: records that went stale are dropped before the refresh
HandleRequestEvict(r) ==
    /\ pc[r] \in {"idle", "done"}
    /\ browser' = [browser EXCEPT ![r] = NoBrowser]
    /\ error' = [error EXCEPT ![r] = NoError]
    /\ IF cache.data # Null /\ (clock - cache.lastFetch) < CACHE_DURATION
       THEN /\ response' = [response EXCEPT ![r] = Json(cache.data)]
            /\ pc' = [pc EXCEPT ![r] = "done"]
            /\ cache' = cache
       ELSE /\ response' = [response EXCEPT ![r] = NoResponse]
            /\ pc' = [pc EXCEPT ![r] = "launch"]
            /\ cache' = [cache EXCEPT !.data = Null]
    /\ UNCHANGED <<clock, lastSet, callVars>>

\* Mutant: while another request is rendering, the cached records are served
\* as they are and no second render starts
HandleRequestSingleFlight(r) ==
    /\ pc[r] \in {"idle", "done"}
    /\ browser' = [browser EXCEPT ![r] = NoBrowser]
    /\ error' = [error EXCEPT ![r] = NoError]
    /\ IF \/ cache.data # Null /\ (clock - cache.lastFetch) < CACHE_DURATION
          \/ cache.data # Null /\ \E q \in Requests \ {r} :
                pc[q] \in {"launch", "newPage", "setUserAgent", "goto", "content"}
       THEN /\ response' = [response EXCEPT ![r] = Json(cache.data)]
            /\ pc' = [pc EXCEPT ![r] = "done"]
       ELSE /\ response' = [response EXCEPT ![r] = NoResponse]
            /\ pc' = [pc EXCEPT ![r] = "launch"]
    /\ UNCHANGED <<clock, cache, lastSet, callVars>>

\* The handler, from its entry to its first await or to its early return.
\* A request takes a free slot: one that never ran or whose handler is over.
\* const now is read on these lines only, so it is the clock of this step.
HandleRequest(r) ==
    /\ pc[r] \in {"idle", "done"}
    /\ browser' = [browser EXCEPT ![r] = NoBrowser]
    /\ error' = [error EXCEPT ![r] = NoError]
    /\ IF ServeFromCache(clock, cache)
       THEN /\ response' = [response EXCEPT ![r] = Json(cache.data)]
            /\ pc' = [pc EXCEPT ![r] = "done"]
       ELSE /\ response' = [response EXCEPT ![r] = NoResponse]
            /\ pc' = [pc EXCEPT ![r] = "launch"]
    /\ UNCHANGED <<clock, cache, lastSet, callVars>>

\* browser = await puppeteer.launch(...) resolves
LaunchResolve(r) ==
    /\ pc[r] = "launch"
    /\ browser' = [browser EXCEPT ![r] = "open"]
    /\ pc' = [pc EXCEPT ![r] = "newPage"]
    /\ UNCHANGED <<clock, cache, error, response, lastSet, callVars>>

\* const page = await browser.newPage() resolves
NewPageResolve(r) ==
    /\ pc[r] = "newPage"
    /\ pc' = [pc EXCEPT ![r] = "setUserAgent"]
    /\ UNCHANGED <<clock, cache, browser, error, response, lastSet, callVars>>

\* await page.setUserAgent(...) resolves
SetUserAgentResolve(r) ==
    /\ pc[r] = "setUserAgent"
    /\ pc' = [pc EXCEPT ![r] = "goto"]
    /\ UNCHANGED <<clock, cache, browser, error, response, lastSet, callVars>>

\* Mutant: a failed refresh invalidates the cache
ThrowInvalidating(r, message) ==
    /\ error' = [error EXCEPT ![r] = message]
    /\ cache' = [cache EXCEPT !.data = Null]
    /\ response' = [response EXCEPT ![r] = Json500(message)]
    /\ pc' = [pc EXCEPT ![r] = IF browser[r] # NoBrowser THEN "close" ELSE "done"]
    /\ UNCHANGED <<clock, browser, lastSet, callVars>>

\* Mutant: a failed render is tried again
ThrowRetry(r, message) ==
    /\ error' = [error EXCEPT ![r] = NoError]
    /\ browser' = [browser EXCEPT ![r] = NoBrowser]
    /\ pc' = [pc EXCEPT ![r] = "launch"]
    /\ UNCHANGED <<clock, cache, response, lastSet, callVars>>

\* Mutant: a failed refresh resets the timestamp
ThrowResetting(r, message) ==
    /\ error' = [error EXCEPT ![r] = message]
    /\ cache' = [cache EXCEPT !.lastFetch = 0]
    /\ response' = [response EXCEPT ![r] =
                      IF cache.data # Null THEN Json(cache.data) ELSE Json500(message)]
    /\ pc' = [pc EXCEPT ![r] = IF browser[r] # NoBrowser THEN "close" ELSE "done"]
    /\ UNCHANGED <<clock, browser, lastSet, callVars>>

\* Mutant: a failed refresh is remembered by advancing the timestamp
ThrowStamping(r, message) ==
    /\ error' = [error EXCEPT ![r] = message]
    /\ cache' = [cache EXCEPT !.lastFetch = clock]
    /\ response' = [response EXCEPT ![r] =
                      IF cache.data # Null THEN Json(cache.data) ELSE Json500(message)]
    /\ pc' = [pc EXCEPT ![r] = IF browser[r] # NoBrowser THEN "close" ELSE "done"]
    /\ UNCHANGED <<clock, browser, lastSet, callVars>>

\* The try block is left by an exception with the given message: the catch
\* block answers, the finally block decides about the browser.
Throw(r, message) ==
    /\ error' = [error EXCEPT ![r] = message]
    /\ response' = [response EXCEPT ![r] = CatchResponse(cache, message)]
    /\ pc' = [pc EXCEPT ![r] = FinallyPc(browser[r])]
    /\ UNCHANGED <<clock, cache, browser, lastSet, callVars>>

\* const response = await page.goto(...) resolves with some status of the
\* airport server; a status that is not ok throws.
GotoResolve(r) ==
    /\ pc[r] = "goto"
    /\ \E status \in Statuses :
         IF Ok(status)
         THEN /\ pc' = [pc EXCEPT ![r] = "content"]
              /\ UNCHANGED <<clock, cache, browser, error, response, lastSet, callVars>>
         ELSE Throw(r, StatusMessage(status))

\* const body = await page.content() resolves with some document of the
\* airport server: parse it, update the cache, answer
ContentResolve(r) ==
    /\ pc[r] = "content"
    /\ \E body \in Bodies :
         LET flights == parseFlights(body) IN
         /\ cache' = CacheUpdate(cache, flights, clock)
         /\ lastSet' = [data |-> flights, lastFetch |-> clock]
         /\ response' = [response EXCEPT ![r] = Json(flights)]
    /\ pc' = [pc EXCEPT ![r] = FinallyPc(browser[r])]
    /\ UNCHANGED <<clock, browser, error, callVars>>

\* error.message when an await of the try block rejects: the text is
\* puppeteer's, one stands for all
RejectMessage == "Navigation failed"

\* The await the handler is suspended at rejects (at "content": page.content()
\* rejects, or parseFlights throws on what it returned)
Reject(r) ==
    /\ pc[r] \in {Awaits[i] : i \in 1..Len(Awaits)}
    /\ Throw(r, RejectMessage)

\* await browser.close() resolves
CloseResolve(r) ==
    /\ pc[r] = "close"
    /\ browser' = [browser EXCEPT ![r] = "closed"]
    /\ pc' = [pc EXCEPT ![r] = "done"]
    /\ UNCHANGED <<clock, cache, error, response, lastSet, callVars>>

\* Time passes
Tick ==
    /\ TicksTaken < MaxTicks
    /\ \E d \in TickSteps : clock' = clock + d
    /\ UNCHANGED <<cache, pc, browser, error, response, lastSet, callVars>>

Next ==
    \/ \E r \in Requests :
         \/ HandleRequest(r)
         \/ LaunchResolve(r)
         \/ NewPageResolve(r)
         \/ SetUserAgentResolve(r)
         \/ GotoResolve(r)
         \/ ContentResolve(r)
         \/ Reject(r)
         \/ CloseResolve(r)
    \/ Tick

Spec == Init /\ [][Next]_vars

\* An await of r's handler settles: it resolves or it rejects
Settle(r) ==
    \/ LaunchResolve(r)
    \/ NewPageResolve(r)
    \/ SetUserAgentResolve(r)
    \/ GotoResolve(r)
    \/ ContentResolve(r)
    \/ Reject(r)
    \/ CloseResolve(r)

\* The server when a burst of requests arrives: just started, or after request
\* 1 has stored two records, at once (records fresh) or one window later
\* (records stale)
InitBurst ==
    \/ Init
    \/ /\ clock \in {StartTime, StartTime + CACHE_DURATION}
       /\ cache = [data |-> parseFlights(DocTwo), lastFetch |-> StartTime]
       /\ lastSet = cache
       /\ pc = [r \in Requests |-> IF r = 1 THEN "done" ELSE "idle"]
       /\ browser = [r \in Requests |-> IF r = 1 THEN "closed" ELSE NoBrowser]
       /\ error = [r \in Requests |-> NoError]
       /\ response = [r \in Requests |->
                        IF r = 1 THEN Json(parseFlights(DocTwo)) ELSE NoResponse]
       /\ arg = <<>>
       /\ ret = <<>>
       /\ returned = FALSE

\* The handlers of the burst interleave; the clock reading does not change
\* while they run
NextBurst == \E r \in Requests : HandleRequest(r) \/ Settle(r)

\* The renderer answers every call: no await of a handler stays pending forever
FairSpec ==
    InitBurst /\ [][NextBurst]_vars /\ \A r \in Requests : WF_vars(Settle(r))

\* ------------------------------ calls of the parsing functions on their own
\* The decimal digit n as a character
DigitChar(n) == CHOOSE c \in Digits : DigitVal(c) = n

\* n as two decimal digits
Pad2(n) == <<DigitChar(n \div 10), DigitChar(n % 10)>>

\* The ways the airport page writes the hour h: two digits, or one when h < 10
HourTexts(h) == {Pad2(h)} \cup (IF h < 10 THEN {<<DigitChar(h)>>} ELSE {})

\* The highest hour of the time tokens tried; 24 and above are no times of
\* day, but tokens the pattern of parseTimeAndDelay matches
MaxHour == 24

\* The minutes of the time tokens tried
MinuteValues == {0, 10, 30, 50, 59}

\* The time tokens tried, each with the hour and minute it was written from
TimeInputs ==
    {[h |-> h, m |-> m, text |-> ht \o <<":">> \o Pad2(m)] :
        <<h, m, ht>> \in {x \in (0..MaxHour) \X MinuteValues \X
                                   UNION {HourTexts(k) : k \in 0..MaxHour} :
                             x[3] \in HourTexts(x[1])}}

\* calculateDelayMinutes(std, etd) is called on two tokens ...
DelayInit ==
    /\ InitServer
    /\ \E s \in TimeInputs, e \in TimeInputs : arg = [std |-> s, etd |-> e]
    /\ ret = 0
    /\ returned = FALSE

\* ... and returns
DelayApply ==
    /\ ~returned
    /\ ret' = calculateDelayMinutes(arg.std.text, arg.etd.text)
    /\ returned' = TRUE
    /\ UNCHANGED <<arg, serverVars>>

DelayNext == DelayApply

DelaySpec == DelayInit /\ [][DelayNext]_vars

\* The pieces the raw time texts tried are put together from: three time
\* tokens, a space, digits without a colon, and a colon
RawPieces ==
    {<<"9", ":", "0", "5">>, <<"2", "3", ":", "5", "0">>, <<"0", "0", ":", "1", "0">>,
     <<" ">>, <<"1", "2">>, <<":">>}

\* The highest number of pieces in a raw time text
MaxPieces == 5

\* The texts of at most n pieces
RECURSIVE TextsOf(_)
TextsOf(n) ==
    IF n = 0 THEN {<<>>}
    ELSE LET shorter == TextsOf(n - 1)
         IN  shorter \cup {p \o t : p \in RawPieces, t \in shorter}

\* parseTimeAndDelay(rawText) is called on a raw text ...
ParseTimeInit ==
    /\ InitServer
    /\ arg \in TextsOf(MaxPieces)
    /\ ret = [std |-> NO_TIME, etd |-> NO_TIME, delayMins |-> 0]
    /\ returned = FALSE

\* ... and returns
ParseTimeApply ==
    /\ ~returned
    /\ ret' = parseTimeAndDelay(arg)
    /\ returned' = TRUE
    /\ UNCHANGED <<arg, serverVars>>

ParseTimeNext == ParseTimeApply

ParseTimeSpec == ParseTimeInit /\ [][ParseTimeNext]_vars

\* The rows the documents tried are made of
RowKinds == {HeaderRow, ShortRow, SixRow, RowDEL, RowBOM}

\* The highest number of rows in a document
MaxRows == 3

\* The documents of at most n rows
RECURSIVE DocsOf(_)
DocsOf(n) ==
    IF n = 0 THEN {<<>>}
    ELSE LET shorter == DocsOf(n - 1)
         IN  shorter \cup {<<row>> \o d : row \in RowKinds, d \in shorter}

\* parseFlights(html) is called on a document ...
ParseFlightsInit ==
    /\ InitServer
    /\ arg \in DocsOf(MaxRows)
    /\ ret = <<>>
    /\ returned = FALSE

\* ... and returns
ParseFlightsApply ==
    /\ ~returned
    /\ ret' = parseFlights(arg)
    /\ returned' = TRUE
    /\ UNCHANGED <<arg, serverVars>>

ParseFlightsNext == ParseFlightsApply

ParseFlightsSpec == ParseFlightsInit /\ [][ParseFlightsNext]_vars

\* The characters the image references tried are written with
UrlChars == {"/", ".", "_", "-", "a"}

\* The highest length of those image references
MaxUrlLen == 4

\* The texts over UrlChars of at most n characters
RECURSIVE UrlsOf(_)
UrlsOf(n) ==
    IF n = 0 THEN {<<>>}
    ELSE LET shorter == UrlsOf(n - 1)
         IN  shorter \cup {<<c>> \o u : c \in UrlChars, u \in shorter}

\* Two references of the airport page
AirIndiaLogo ==
    <<"/", "i", "m", "g", "/", "a", "i", "r", "-", "i", "n", "d", "i", "a", "_", "l", "o", "g", "o", ".", "p", "n", "g">>

IndigoLogo ==
    <<"/", "i", "m", "g", "/", "i", "n", "d", "i", "g", "o", "_", "l", "o", "g", "o", ".", "p", "n", "g">>

\* getAirlineNameFromUrl(url) is called on a missing src attribute or on an
\* image reference ...
AirlineInit ==
    /\ InitServer
    /\ arg \in UrlsOf(MaxUrlLen) \cup {Undefined, AirIndiaLogo, IndigoLogo}
    /\ ret = <<>>
    /\ returned = FALSE

\* ... and returns
AirlineApply ==
    /\ ~returned
    /\ ret' = getAirlineNameFromUrl(arg)
    /\ returned' = TRUE
    /\ UNCHANGED <<arg, serverVars>>

AirlineNext == AirlineApply

AirlineSpec == AirlineInit /\ [][AirlineNext]_vars

\* ------------------------------------------------------------ vocabulary
\* The handler of r is suspended at an await of its try block
InFlight(r) == pc[r] \in {Awaits[i] : i \in 1..Len(Awaits)}

\* This step is the entry of a new request into slot r
Started(r) ==
    /\ pc[r] \in {"idle", "done"}
    /\ <<pc'[r], browser'[r], error'[r], response'[r]>>
         # <<pc[r], browser[r], error[r], response[r]>>

\* This step is the failure of r's refresh: its try block is left by a throw
FailsNow(r) == InFlight(r) /\ error'[r] # NoError

\* This step is the success of r's refresh
SucceedsNow(r) == pc[r] = "content" /\ pc'[r] # "content" /\ error'[r] = NoError

\* This step sends r's response
AnsweredNow(r) == response'[r] # response[r] /\ response'[r] # NoResponse

\* The cache counts as fresh at the current clock reading
FreshNow == cache.data # Null /\ clock - cache.lastFetch < CACHE_DURATION

\* What the two documents parse to
ParsedBodies == {parseFlights(b) : b \in Bodies}

TypeOK ==
    /\ clock \in Nat
    /\ cache.lastFetch \in Nat
    /\ cache.data \in ParsedBodies \cup {Null}
    /\ pc \in [Requests -> PcValues]
    /\ browser \in [Requests -> {NoBrowser, "open", "closed"}]
    /\ \A r \in Requests : response[r].status \in {0, 200, 500}

\* ------------------------------------------------------------------ claims
\* C1: a request whose refresh fails at any step while the cache holds
\* records R, of whatever age, is answered 200 with exactly R.
C1_StaleFallback ==
    [][\A r \in Requests :
         (FailsNow(r) /\ cache.data # Null)
            => (response'[r] = Json(cache.data) /\ response'[r].status = 200)]_vars

\* A failed refresh was answered with the records stored one window and one
\* millisecond earlier.
C1_Witness ==
    \E r \in Requests :
        /\ error[r] # NoError
        /\ pc[r] \in {"close", "done"}
        /\ cache.data = parseFlights(DocTwo)
        /\ clock = cache.lastFetch + CACHE_DURATION + 1
        /\ response[r] = Json(cache.data)

\* C2: a request is answered with the failure (500 with error and details)
\* exactly when its refresh failed while the cache held no records; every
\* other answer is a 200.
C2_FailureIffNoData ==
    [][\A r \in Requests :
         /\ (FailsNow(r) /\ cache.data = Null)
               => response'[r] = Json500(error'[r])
         /\ (AnsweredNow(r) /\ response'[r].status = 500)
               => (FailsNow(r) /\ cache.data = Null)
         /\ AnsweredNow(r) => response'[r].status \in {200, 500}]_vars

\* A refresh failed on an empty cache and was answered 500, and a refresh
\* that failed on an empty array of records was answered 200.
C2_Witness ==
    \E r, q \in Requests :
        /\ error[r] # NoError /\ response[r] = Json500(error[r])
        /\ error[q] # NoError /\ response[q] = Json(<<>>)
\* C3: a request that finds records in the cache younger than the freshness
\* window is answered with them at once, starts no render and leaves the
\* cached records and the timestamp as they are.
C3_FreshHit ==
    [][\A r \in Requests :
         (Started(r) /\ cache.data # Null /\ clock - cache.lastFetch < CACHE_DURATION)
            => /\ response'[r] = Json(cache.data)
               /\ pc'[r] = "done"
               /\ browser'[r] = NoBrowser
               /\ cache' = cache]_vars

\* A request was served the records from the cache in the last millisecond
\* of their window.
C3_Witness ==
    \E r \in Requests :
        /\ pc[r] = "done" /\ browser[r] = NoBrowser /\ error[r] = NoError
        /\ cache.data = parseFlights(DocTwo)
        /\ response[r] = Json(cache.data)
        /\ clock = cache.lastFetch + CACHE_DURATION - 1

\* C4: once a refresh has succeeded, no request is answered with the failure
\* any more, however the handlers of overlapping requests interleave.
C4_NoFailureAfterSuccess ==
    [][lastSet.data # Null
         => \A r \in Requests :
              response'[r].status = 500 => response'[r] = response[r]]_vars

\* After a successful refresh, the refresh of a request that had started
\* before it failed and was answered with the stored records.
C4_Witness ==
    \E r, q \in Requests :
        /\ r # q
        /\ lastSet.data # Null
        /\ pc[q] = "done" /\ error[q] = NoError /\ browser[q] = "closed"
        /\ cache.lastFetch = StartTime /\ clock = StartTime
        /\ error[r] # NoError /\ response[r] = Json(cache.data)

\* C5: a request that has finished has no browser open, whichever way it left
\* the try block, and a request served from the fresh cache never had one.
C5_BrowserReleased ==
    [][\A r \in Requests :
         /\ pc'[r] = "done" => browser'[r] # "open"
         /\ browser'[r] = "open" => pc'[r] \in {"newPage", "setUserAgent", "goto", "content", "close"}
         /\ (Started(r) /\ pc'[r] = "done") => browser'[r] = NoBrowser]_vars

\* One request finished a failed refresh and another a successful one, both
\* with their browser closed.
C5_Witness ==
    \E r, q \in Requests :
        /\ pc[r] = "done" /\ browser[r] = "closed" /\ error[r] # NoError
        /\ pc[q] = "done" /\ browser[q] = "closed" /\ error[q] = NoError

\* C6: in every state a handler can read the cache in, the records and the
\* timestamp are those one and the same refresh stored.
C6_AtomicSet ==
    /\ cache.data = lastSet.data
    /\ cache.lastFetch = lastSet.lastFetch

\* A second refresh has overwritten the records and the timestamp of a first
\* while another handler was suspended, and a request has read them.
C6_Witness ==
    \E r, q \in Requests :
        /\ r # q
        /\ InFlight(q)
        /\ cache.data = parseFlights(DocTwo)
        /\ cache.lastFetch > StartTime
        /\ pc[r] = "done" /\ browser[r] = NoBrowser /\ error[r] = NoError
        /\ response[r] = Json(cache.data)

\* C7: a step that changes the cache is the success of one refresh and sets
\* the records to exactly what that refresh parsed and answered and the
\* timestamp to the clock; the failure of a refresh changes neither.
C7_ReplaceOrUntouched ==
    [][/\ cache' # cache
            => \E r \in Requests :
                 /\ SucceedsNow(r)
                 /\ cache'.data \in ParsedBodies
                 /\ response'[r] = Json(cache'.data)
                 /\ cache'.lastFetch = clock
       /\ \A r \in Requests : SucceedsNow(r) => response'[r] = Json(cache'.data)
       /\ \A r \in Requests : FailsNow(r) => cache' = cache]_vars

\* The cache held two records, which one request was answered with, and now
\* holds the empty array that a later refresh parsed.
C7_Witness ==
    \E r, q \in Requests :
        /\ response[r] = Json(parseFlights(DocTwo))
        /\ pc[q] = "close" /\ error[q] = NoError /\ response[q] = Json(<<>>)
        /\ cache.data = <<>>
        /\ cache.lastFetch > StartTime

\* C8: the cache never goes back to holding no records, and its records
\* change in no step but the success of a refresh.
C8_NoEviction ==
    [][/\ cache.data # Null => cache'.data # Null
       /\ cache'.data # cache.data => \E r \in Requests : SucceedsNow(r)]_vars

\* The records are two windows old, and a refresh that failed then was
\* answered with them.
C8_Witness ==
    \E r \in Requests :
        /\ cache.data = parseFlights(DocTwo)
        /\ clock - cache.lastFetch >= 2 * (CACHE_DURATION - 1)
        /\ error[r] # NoError /\ response[r] = Json(cache.data)

\* C9: a request is served from the cache exactly when records are present
\* and younger than the window: served at age window - 1, not served at age
\* window or window + 1, and never served while there are no records.
C9_Freshness ==
    [][\A r \in Requests : Started(r) =>
         /\ pc'[r] = "done" <=> (cache.data # Null /\ clock - cache.lastFetch < CACHE_DURATION)
         /\ pc'[r] \in {"done", "launch"}
         /\ (cache.data # Null /\ clock = cache.lastFetch + CACHE_DURATION - 1) => pc'[r] = "done"
         /\ clock = cache.lastFetch + CACHE_DURATION => pc'[r] = "launch"
         /\ clock = cache.lastFetch + CACHE_DURATION + 1 => pc'[r] = "launch"
         /\ cache.data = Null => pc'[r] = "launch"]_vars

\* A render is awaited while the records are exactly one window old.
C9_Witness ==
    \E r \in Requests :
        /\ pc[r] = "launch"
        /\ cache.data # Null
        /\ clock = cache.lastFetch + CACHE_DURATION
        /\ \A q \in Requests \ {r} : ~InFlight(q) /\ pc[q] # "close"

\* C10: a request that finds the cache stale or empty starts its own render
\* also while another request's render is in flight, and leaves that one alone.
C10_NoSingleFlight ==
    [][\A r, q \in Requests :
         (r # q /\ InFlight(q) /\ Started(r) /\ ~FreshNow)
            => /\ pc'[r] = "launch"
               /\ response'[r] = NoResponse
               /\ pc'[q] = pc[q]]_vars

\* Two renders are in flight for the same stale records.
C10_Witness ==
    \E r, q \in Requests :
        /\ r # q
        /\ InFlight(r) /\ InFlight(q)
        /\ cache.data # Null
        /\ clock - cache.lastFetch >= CACHE_DURATION
\* The moves of one handler between its suspension points
PcMoves ==
    {<<"idle", "done">>, <<"idle", "launch">>, <<"done", "launch">>,
     <<"launch", "newPage">>, <<"launch", "done">>,
     <<"newPage", "setUserAgent">>, <<"newPage", "close">>,
     <<"setUserAgent", "goto">>, <<"setUserAgent", "close">>,
     <<"goto", "content">>, <<"goto", "close">>,
     <<"content", "close">>, <<"close", "done">>}

\* C11: a request is either served from the cache at its entry or goes through
\* one render; the render ends in the update, in the stale answer or in the
\* failure; exactly one response is sent, at that point; no render is started
\* twice; and when the renderer answers every call, every handler ends.
C11_StateMachine ==
    /\ [][\A r \in Requests :
            /\ pc'[r] # pc[r] => <<pc[r], pc'[r]>> \in PcMoves
            /\ (Started(r) /\ pc'[r] = "done")
                  => (FreshNow /\ response'[r] = Json(cache.data))
            /\ (Started(r) /\ pc'[r] = "launch") => (~FreshNow /\ response'[r] = NoResponse)
            /\ InFlight(r) => response[r] = NoResponse
            /\ (InFlight(r) /\ InFlight(r)') => response'[r] = NoResponse
            /\ (InFlight(r) /\ ~InFlight(r)')
                  => /\ response'[r].status \in {200, 500}
                     /\ SucceedsNow(r) \/ FailsNow(r)
                     /\ SucceedsNow(r) => response'[r] = Json(cache'.data)
                     /\ FailsNow(r) => response'[r] \in {Json(cache.data), Json500(error'[r])}
            /\ pc[r] = "close" => response'[r] = response[r]
            /\ pc'[r] = "launch" => (pc[r] = "launch" \/ Started(r))]_vars
    /\ \A r \in Requests : (pc[r] # "idle") ~> (pc[r] = "done")

\* Of two requests that found the records stale, one has ended with the
\* update and the other with the stale answer.
C11_Witness ==
    \E r, q \in Requests :
        /\ clock = StartTime + CACHE_DURATION
        /\ pc[r] = "done" /\ error[r] # NoError /\ response[r].status = 200
        /\ pc[q] = "done" /\ error[q] = NoError /\ browser[q] = "closed"
        /\ response[q] = Json(<<>>)

\* The states a burst starts in are states of the server: request 1 has
\* stored two records and a window has gone by since.
InitBurstReached ==
    /\ clock = StartTime + CACHE_DURATION
    /\ cache = [data |-> parseFlights(DocTwo), lastFetch |-> StartTime]
    /\ lastSet = cache
    /\ pc = [r \in Requests |-> IF r = 1 THEN "done" ELSE "idle"]
    /\ browser = [r \in Requests |-> IF r = 1 THEN "closed" ELSE NoBrowser]
    /\ error = [r \in Requests |-> NoError]
    /\ response = [r \in Requests |->
                     IF r = 1 THEN Json(parseFlights(DocTwo)) ELSE NoResponse]
\* Minutes since midnight of a token, from the hour and minute it was written from
MinutesOf(t) == t.h * 60 + t.m

\* The token is a time of day
IsTimeOfDay(t) == t.h <= 23 /\ t.m <= 59

\* C12: calculateDelayMinutes returns a non-negative number of minutes for
\* every pair of tokens, and exactly estimated - scheduled when the estimated
\* time is not earlier than the scheduled one.
C12_DelayNonNegative ==
    returned =>
        /\ ret \in Nat
        /\ MinutesOf(arg.etd) >= MinutesOf(arg.std)
              => ret = MinutesOf(arg.etd) - MinutesOf(arg.std)
        /\ arg.std.text = arg.etd.text => ret = 0

\* 9:05 and 09:40 gave 35; two writings of one time gave 0.
C12_Witness ==
    /\ returned
    /\ arg.std.text # arg.etd.text
    /\ MinutesOf(arg.etd) = MinutesOf(arg.std) + 20
    /\ Len(arg.std.text) = 4 /\ Len(arg.etd.text) = 5
    /\ ret = 20

\* C13: for times of day, an estimated time more than 12 hours before the
\* scheduled one is taken as next-day (23:50 and 00:10 give 20), and one that
\* is 12 hours or less before it gives 0.
C13_OvernightRollover ==
    (returned /\ IsTimeOfDay(arg.std) /\ IsTimeOfDay(arg.etd)) =>
        LET a == MinutesOf(arg.std)
            b == MinutesOf(arg.etd)
        IN  /\ a - b > 12 * 60 => ret = b + 24 * 60 - a
            /\ (a - b > 0 /\ a - b <= 12 * 60) => ret = 0
            /\ (arg.std.text = <<"2", "3", ":", "5", "0">>
                  /\ arg.etd.text = <<"0", "0", ":", "1", "0">>) => ret = 20

\* 23:50 and 00:10 gave 20.
C13_Witness ==
    /\ returned
    /\ arg.std.text = <<"2", "3", ":", "5", "0">>
    /\ arg.etd.text = <<"0", "0", ":", "1", "0">>
    /\ ret = 20
\* The text is a time token: one or two digits, a colon, two digits
IsTimeToken(t) ==
    /\ Len(t) \in {4, 5}
    /\ t[Len(t) - 2] = ":"
    /\ \A i \in 1..Len(t) : i # Len(t) - 2 => t[i] \in Digits

\* C14: the result of parseTimeAndDelay is fixed by the time tokens of the raw
\* text in their order: the sentinel pair and 0 for none; the token twice and
\* 0 for one; the first, the second and their delay for two or more, whatever
\* follows them.
C14_TokensDecide ==
    returned =>
        LET tokens == MatchTimes(arg, 1) IN
        /\ \A i \in 1..Len(tokens) : IsTimeToken(tokens[i])
        /\ Len(tokens) = 0
              => ret = [std |-> NO_TIME, etd |-> NO_TIME, delayMins |-> 0]
        /\ Len(tokens) = 1
              => ret = [std |-> tokens[1], etd |-> tokens[1], delayMins |-> 0]
        /\ Len(tokens) >= 2
              => ret = [std |-> tokens[1], etd |-> tokens[2],
                        delayMins |-> calculateDelayMinutes(tokens[1], tokens[2])]

\* "9:05 23:50 00:10" gave 9:05, 23:50 and their delay: the third token did
\* not count.
C14_Witness ==
    /\ returned
    /\ arg = <<"9", ":", "0", "5", " ", "2", "3", ":", "5", "0", " ",
               "0", "0", ":", "1", "0">>
    /\ ret = [std |-> <<"9", ":", "0", "5">>, etd |-> <<"2", "3", ":", "5", "0">>,
              delayMins |-> 885]
\* The rows with at least 7 cells whose destination does not hold "origin"
IsFlightRow(row) == row \in {RowDEL, RowBOM}

\* C15: parseFlights returns one record for each row with at least 7 cells and
\* no "origin" in its destination, in the order of the document and with
\* repeated rows kept; header rows and short rows are left out wherever they
\* stand; a document without such a row gives the empty sequence.
C15_RowsInOrder ==
    returned =>
        LET flightRows == SelectSeq(arg, IsFlightRow) IN
        /\ Len(ret) = Len(flightRows)
        /\ \A i \in 1..Len(ret) :
              /\ ret[i] = FlightOf(flightRows[i])
              /\ ret[i].dest = Trim(flightRows[i].td[3])
              /\ ret[i].flightNo = <<"6", "E", "1">>
        /\ (\A i \in 1..Len(arg) : ~IsFlightRow(arg[i])) => ret = <<>>

\* A flight, the header and the same flight again gave the flight's record
\* twice.
C15_Witness ==
    /\ returned
    /\ arg = <<RowDEL, HeaderRow, RowDEL>>
    /\ Len(ret) = 2
    /\ ret[1] = ret[2]
    /\ ret[1].dest = <<"D", "E", "L">>
\* The piece of an image reference the name is taken from: what follows the
\* last slash, up to the first dot or underscore of it, with spaces for hyphens
PieceOf(url) ==
    LET slashes == {i \in 1..Len(url) : url[i] = "/"}
        from    == IF slashes = {} THEN 1
                   ELSE (CHOOSE i \in slashes : \A j \in slashes : j <= i) + 1
        stops   == {i \in from..Len(url) : url[i] \in {".", "_"}}
        to      == IF stops = {} THEN Len(url)
                   ELSE (CHOOSE i \in stops : \A j \in stops : i <= j) - 1
    IN  [i \in 1..(to - from + 1) |->
            IF url[from + i - 1] = "-" THEN " " ELSE url[from + i - 1]]

\* C16: getAirlineNameFromUrl never returns the empty name: it returns "Other"
\* for a missing or empty reference and for an empty piece, and the piece
\* otherwise.
C16_AirlineName ==
    returned =>
        /\ ret # <<>>
        /\ ret = (IF arg = Undefined \/ arg = <<>> THEN OTHER_NAME
                  ELSE IF PieceOf(arg) = <<>> THEN OTHER_NAME
                  ELSE PieceOf(arg))

\* ".../air-india_logo.png" gave "air india".
C16_Witness ==
    /\ returned
    /\ arg = AirIndiaLogo
    /\ ret = <<"a", "i", "r", " ", "i", "n", "d", "i", "a">>
\* C17: the success of a refresh stores what that refresh parsed and the clock
\* of its completion over whatever the cache holds, fresh records of another
\* refresh included, and no other step changes the cache: the cache is that of
\* the refresh that completed last.
C17_LastCompleterWins ==
    [][/\ \A r \in Requests :
            SucceedsNow(r) =>
                /\ response'[r].status = 200
                /\ cache' = [data |-> response'[r].json, lastFetch |-> clock']
       /\ (\A r \in Requests : ~SucceedsNow(r)) => cache' = cache]_vars

\* Two refreshes overlapped inside one freshness window: q completed first and
\* stored two records, r completed later and the cache is r's empty array at
\* r's completion time.
C17_Witness ==
    \E r, q \in Requests :
        /\ r # q
        /\ pc[q] = "done" /\ browser[q] = "closed" /\ error[q] = NoError
        /\ response[q] = Json(parseFlights(DocTwo))
        /\ pc[r] = "close" /\ error[r] = NoError /\ response[r] = Json(<<>>)
        /\ clock > StartTime /\ clock < StartTime + CACHE_DURATION
        /\ cache = [data |-> <<>>, lastFetch |-> clock]

\* C18: the records are absent exactly when the timestamp is 0; the timestamp
\* never decreases, and a step that changes it is the success of a refresh and
\* sets it to the clock.
C18_AbsentIffZero ==
    /\ [](cache.data = Null <=> cache.lastFetch = 0)
    /\ [][/\ cache'.lastFetch >= cache.lastFetch
          /\ cache'.lastFetch # cache.lastFetch
               => /\ \E r \in Requests : SucceedsNow(r)
                  /\ cache'.lastFetch = clock']_vars

\* The timestamp has been advanced a second time, one window or more after the
\* first refresh, and a refresh failed in between or after.
C18_Witness ==
    \E r, q \in Requests :
        /\ cache.data # Null
        /\ cache.lastFetch >= StartTime + CACHE_DURATION
        /\ pc[r] = "done" /\ error[r] = NoError /\ browser[r] = "closed"
        /\ response[r] = Json(cache.data)
        /\ error[q] # NoError

\* C19: a refresh that parsed no record stores the empty array and the clock;
\* a request inside the window of an empty array is answered with it and
\* starts no render; a refresh that fails over an empty array is answered 200
\* with it.
C19_EmptyIsPresent ==
    [][\A r \in Requests :
         /\ SucceedsNow(r) /\ response'[r] = Json(<<>>)
              => cache' = [data |-> <<>>, lastFetch |-> clock']
         /\ Started(r) /\ cache.data = <<>> /\ clock - cache.lastFetch < CACHE_DURATION
              => /\ response'[r] = Json(<<>>)
                 /\ pc'[r] = "done"
                 /\ browser'[r] = NoBrowser
                 /\ cache' = cache
         /\ FailsNow(r) /\ cache.data = <<>>
              => response'[r] = Json(<<>>)]_vars

\* The cache holds the empty array; one request was served it from the cache
\* and another, whose refresh failed, was answered with it.
C19_Witness ==
    \E r, q \in Requests :
        /\ cache.data = <<>>
        /\ cache.lastFetch >= StartTime
        /\ pc[r] = "done" /\ browser[r] = NoBrowser /\ error[r] = NoError
        /\ response[r] = Json(<<>>)
        /\ error[q] # NoError /\ response[q] = Json(<<>>)

\* C20: the failure of a refresh leaves the timestamp and the records as they
\* are, and every request that arrives while the cache is empty or stale
\* starts a render, whatever failed before.
C20_NoNegativeCaching ==
    [][\A r \in Requests :
         /\ FailsNow(r) => cache' = cache
         /\ Started(r) /\ ~FreshNow
              => /\ pc'[r] = "launch"
                 /\ response'[r] = NoResponse]_vars

\* A refresh has failed with nothing to fall back on, the cache is still
\* empty some time later, and another request is rendering.
C20_Witness ==
    \E r, q \in Requests :
        /\ pc[q] = "done" /\ error[q] # NoError
        /\ response[q] = Json500(error[q])
        /\ cache = [data |-> Null, lastFetch |-> 0]
        /\ clock > StartTime
        /\ pc[r] = "launch"
====
